---- MODULE Spec2Model ----
(***************************************************************************)
(* A model of internal/utils.py: the Markdown renderer render_example_md   *)
(* and the catalog build get_examples / gather_example_files.              *)
(*                                                                         *)
(* Python strings are modelled as sequences of one-character strings, so   *)
(* that splitting, joining, slicing and the two regular expressions are    *)
(* computed character by character, as the code computes them.             *)
(***************************************************************************)
EXTENDS Integers, Sequences, FiniteSets, TLC

VARIABLES
    content,    \* render_example_md: the text of the file example.filename
    rendered,   \* render_example_md: TRUE once the function has returned
    output,     \* render_example_md: the returned text
    pc,         \* get_examples: "idle", "start", "run", "done" or "raised"
    exists,     \* get_examples: directory.exists()
    silent,     \* get_examples: the parameter silent
    fs,         \* the directories listed so far: path |-> set of entries
    nodes,      \* the number of directory entries listed so far
    cats,       \* get_examples: the sorted, filtered category paths
    ci,         \* get_examples: index in cats of the next category
    stack,      \* the active gather_example_files generators, outermost first
    yielded,    \* the Example records yielded to the consumer, in order
    ignored,    \* get_examples: the list ignored
    reported,   \* get_examples: TRUE once the ignored list has been printed
    failed      \* <<path>> of the file whose metadata extraction raised

rvars == <<content, rendered, output>>
cvars == <<pc, exists, silent, fs, nodes, cats, ci, stack, yielded, ignored,
           reported, failed>>
vars  == <<rvars, cvars>>

(***************************************************************************)
(* Generic sequence helpers.                                               *)
(***************************************************************************)
NL == "\n"
CR == "\r"

\* text[i:] of Python, for a 0-based offset i
Drop(s, i) == SubSeq(s, i + 1, Len(s))

\* sep.join(parts)
RECURSIVE Join(_, _)
Join(parts, sep) ==
    IF Len(parts) = 0 THEN <<>>
    ELSE IF Len(parts) = 1 THEN parts[1]
    ELSE parts[1] \o sep \o Join(Tail(parts), sep)

\* s.startswith(p)
StartsWith(s, p) == Len(s) >= Len(p) /\ SubSeq(s, 1, Len(p)) = p

(***************************************************************************)
(* render_example_md                                                       *)
(***************************************************************************)
\* The backquote character of the code fence; a TLA+ string cannot hold it.
BQ == "BQ"

FENCE_OPEN  == <<BQ, BQ, BQ, "p", "y", "t", "h", "o", "n">>
FENCE_CLOSE == <<BQ, BQ, BQ>>
MARKER      == <<"-", "-", "-">>

\* _RE_NEWLINE.split(content): split on every "\n" or "\r\n".  cur is the
\* piece being collected.
RECURSIVE SplitFrom(_, _)
SplitFrom(s, cur) ==
    IF Len(s) = 0 THEN <<cur>>
    ELSE IF s[1] = NL THEN <<cur>> \o SplitFrom(Tail(s), <<>>)
    ELSE IF s[1] = CR /\ Len(s) >= 2 /\ s[2] = NL
         THEN <<cur>> \o SplitFrom(Drop(s, 2), <<>>)
    ELSE SplitFrom(Tail(s), Append(cur, s[1]))

RE_NEWLINE_split(s) == SplitFrom(s, <<>>)

\* line == "#" or line.startswith("# ")
IsCommentLine(line) == line = <<"#">> \/ StartsWith(line, <<"#", " ">>)

\* Mutant of FlushCode: the blank line after the close fence is forgotten.
FlushCode_NoBlank(markdown, code) ==
    markdown \o <<FENCE_OPEN>> \o code \o <<FENCE_CLOSE>>

\* markdown.extend([FENCE_OPEN, *code, FENCE_CLOSE, ""])
FlushCode(markdown, code) ==
    markdown \o <<FENCE_OPEN>> \o code \o <<FENCE_CLOSE, <<>>>>

\* Mutant of LoopBody: a line that is not a comment line appends no empty
\* line to markdown.
LoopBody_NoSeparator(acc, line) ==
    IF IsCommentLine(line)
    THEN LET md == IF acc.code # <<>> THEN FlushCode(acc.markdown, acc.code)
                   ELSE acc.markdown
         IN  [markdown |-> Append(md, Drop(line, 2)), code |-> <<>>]
    ELSE [markdown |-> acc.markdown,
          code |-> IF acc.code # <<>> \/ line # <<>>
                   THEN Append(acc.code, line) ELSE acc.code]

\* One iteration of the for loop; acc is [markdown, code].
LoopBody(acc, line) ==
    IF IsCommentLine(line)
    THEN LET md == IF acc.code # <<>> THEN FlushCode(acc.markdown, acc.code)
                   ELSE acc.markdown
         IN  [markdown |-> Append(md, Drop(line, 2)), code |-> <<>>]
    ELSE LET md == Append(acc.markdown, <<>>)
         IN  [markdown |-> md,
              code |-> IF acc.code # <<>> \/ line # <<>>
                       THEN Append(acc.code, line) ELSE acc.code]

RECURSIVE Loop(_, _)
Loop(acc, lines) ==
    IF Len(lines) = 0 THEN acc ELSE Loop(LoopBody(acc, lines[1]), Tail(lines))

\* The list markdown after the loop and the final flush.
MarkdownLines(lines) ==
    LET acc == Loop([markdown |-> <<>>, code |-> <<>>], lines)
    IN  IF acc.code # <<>> THEN FlushCode(acc.markdown, acc.code)
        ELSE acc.markdown

\* text = "\n".join(markdown)
Assemble(lines) == Join(MarkdownLines(lines), <<NL>>)

\* re.compile(r"^---$", re.MULTILINE) matching at 0-based offset i of text:
\* "^" holds at the start of the text and after a newline, "$" at the end
\* of the text and before a newline.
MarkerAt(text, i) ==
    /\ i + 3 <= Len(text)
    /\ (i = 0 \/ text[i] = NL)
    /\ SubSeq(text, i + 1, i + 3) = MARKER
    /\ (i + 3 = Len(text) \/ text[i + 4] = NL)

\* _RE_FRONTMATTER.match(text)
RE_FRONTMATTER_match(text) == MarkerAt(text, 0)

\* The offsets where _RE_FRONTMATTER.search(text, pos) can match.
MarkerOffsets(text, pos) == {i \in pos .. Len(text) : MarkerAt(text, i)}

\* match.end() of _RE_FRONTMATTER.search(text, pos): the leftmost match.
RE_FRONTMATTER_search_end(text, pos) ==
    LET offs == MarkerOffsets(text, pos)
    IN  (CHOOSE i \in offs : \A j \in offs : i <= j) + 3

FRONTMATTER_SEARCH_POS == 4

\* Mutant of StripFrontmatter: the search starts at offset 0 and finds the
\* opening marker again.
StripFrontmatter_FromStart(text) ==
    IF RE_FRONTMATTER_match(text)
    THEN Drop(text, RE_FRONTMATTER_search_end(text, 0))
    ELSE text

StripFrontmatter(text) ==
    IF RE_FRONTMATTER_match(text)
    THEN IF MarkerOffsets(text, FRONTMATTER_SEARCH_POS) # {}
         THEN Drop(text, RE_FRONTMATTER_search_end(text, FRONTMATTER_SEARCH_POS))
         ELSE text
    ELSE text

\* f.read() of a file opened in text mode: "\r\n" and "\r" are read as
\* "\n" (universal newlines).
RECURSIVE ReadText(_)
ReadText(s) ==
    IF Len(s) = 0 THEN <<>>
    ELSE IF s[1] = CR /\ Len(s) >= 2 /\ s[2] = NL
         THEN <<NL>> \o ReadText(Drop(s, 2))
    ELSE IF s[1] = CR THEN <<NL>> \o ReadText(Tail(s))
    ELSE <<s[1]>> \o ReadText(Tail(s))

render_example_md(file) ==
    StripFrontmatter(Assemble(RE_NEWLINE_split(ReadText(file))))

(***************************************************************************)
(* The renderer's inputs: files of up to MaxLines lines drawn from         *)
(* LinePool, joined by "\n" or by "\r\n", with or without a final line     *)
(* terminator, and the example file of the documentation.                  *)
(***************************************************************************)
MaxLines == 4

L_EMPTY     == <<>>
L_HASH      == <<"#">>
L_CMARKER   == <<"#", " ", "-", "-", "-">>
L_MARKER    == <<"-", "-", "-">>
L_CKEY      == <<"#", " ", "k", "e", "y", ":", " ", "1">>
L_KEY       == <<"k", "e", "y", ":", " ", "1">>
L_BODY      == <<"b", "o", "d", "y">>
L_TITLE     == <<"#", " ", "T", "i", "t", "l", "e">>
L_PRINT     == <<"p", "r", "i", "n", "t", "(", "1", ")">>

LinePool == {L_EMPTY, L_HASH, L_CMARKER, L_MARKER, L_CKEY, L_KEY, L_BODY}

RECURSIVE LineSeqs(_)
LineSeqs(n) ==
    IF n = 0 THEN {<<>>}
    ELSE LET shorter == LineSeqs(n - 1)
         IN  shorter \cup
             {Append(ls, l) : ls \in {x \in shorter : Len(x) = n - 1}, l \in LinePool}

Separators == {<<NL>>, <<CR, NL>>}

EXAMPLE_TITLE == Join(<<L_TITLE, L_PRINT, L_EMPTY>>, <<NL>>)

Inputs ==
    {Join(ls, sep) : ls \in LineSeqs(MaxLines), sep \in Separators}
        \cup {EXAMPLE_TITLE}

\* The catalog build is not running.
CatalogIdle ==
    /\ pc = "idle" /\ exists = FALSE /\ silent = FALSE
    /\ fs = <<>> /\ nodes = 0 /\ cats = <<>> /\ ci = 1 /\ stack = <<>>
    /\ yielded = <<>> /\ ignored = <<>> /\ reported = FALSE /\ failed = <<>>

RenderInit ==
    /\ content \in Inputs
    /\ rendered = FALSE
    /\ output = <<>>
    /\ CatalogIdle

\* render_example_md(example) on the file whose text is content.
Render ==
    /\ ~rendered
    /\ output' = render_example_md(content)
    /\ rendered' = TRUE
    /\ UNCHANGED <<content, cvars>>

RenderNext == Render

RenderSpec == RenderInit /\ [][RenderNext]_vars

(***************************************************************************)
(* pathlib: names, suffixes, stems and the order sorted() puts paths in.   *)
(* A path is the sequence of its names below the catalog root.             *)
(***************************************************************************)
CodePoint(c) ==
    CASE c = "." -> 46 [] c = "/" -> 47 [] c = "_" -> 95
      [] c = "a" -> 97 [] c = "b" -> 98 [] c = "d" -> 100 [] c = "e" -> 101
      [] c = "g" -> 103 [] c = "i" -> 105 [] c = "l" -> 108 [] c = "n" -> 110
      [] c = "p" -> 112 [] c = "r" -> 114 [] c = "t" -> 116 [] c = "x" -> 120
      [] c = "y" -> 121

\* a < b for two strings
RECURSIVE StrLess(_, _)
StrLess(a, b) ==
    IF Len(b) = 0 THEN FALSE
    ELSE IF Len(a) = 0 THEN TRUE
    ELSE IF a[1] = b[1] THEN StrLess(Tail(a), Tail(b))
    ELSE CodePoint(a[1]) < CodePoint(b[1])

\* Mutant of Sorted: descending order.
RECURSIVE Sorted_Descending(_)
Sorted_Descending(S) ==
    IF S = {} THEN <<>>
    ELSE LET m == CHOOSE x \in S : \A y \in S \ {x} : StrLess(y.name, x.name)
         IN  <<m>> \o Sorted_Descending(S \ {m})

\* sorted(list(subdir.iterdir())): the entries of one directory by name
RECURSIVE Sorted(_)
Sorted(S) ==
    IF S = {} THEN <<>>
    ELSE LET m == CHOOSE x \in S : \A y \in S \ {x} : StrLess(x.name, y.name)
         IN  <<m>> \o Sorted(S \ {m})

\* name.rfind("."), 0-based, -1 when there is none
RFindDot(name) ==
    LET I == {i \in 1 .. Len(name) : name[i] = "."}
    IN  IF I = {} THEN -1 ELSE (CHOOSE i \in I : \A j \in I : j <= i) - 1

\* PurePath.suffix
Suffix(name) ==
    LET i == RFindDot(name)
    IN  IF 0 < i /\ i < Len(name) - 1 THEN Drop(name, i) ELSE <<>>

\* PurePath.stem
Stem(name) ==
    LET i == RFindDot(name)
    IN  IF 0 < i /\ i < Len(name) - 1 THEN SubSeq(name, 1, i) ELSE name

\* PurePath.name
Name(path) == path[Len(path)]

(***************************************************************************)
(* Example and ExampleType.  An Optional field is <<>> for None and <<v>>  *)
(* for the value v.                                                        *)
(***************************************************************************)
MODULE_TYPE == 1
ASSET_TYPE  == 2

None == <<>>
Some(v) == <<v>>

PY_EXT   == <<".", "p", "y">>
INIT_STEM == <<"_", "_", "i", "n", "i", "t", "_", "_">>
ASSET_EXTS ==
    {<<".", "p", "n", "g">>, <<".", "j", "p", "e", "g">>, <<".", "j", "p", "g">>,
     <<".", "g", "i", "f">>, <<".", "m", "p", "4">>}

S_MODAL == <<"m", "o", "d", "a", "l">>
S_RUN   == <<"r", "u", "n">>

(***************************************************************************)
(* gather_example_files                                                    *)
(***************************************************************************)
\* The first argument of the recursive call: parents + [str(subdir.stem)]
ChildParents(parents, subdir) == Append(parents, Stem(Name(subdir)))

\* Mutant of ChildRecurse: the recursive call keeps recursing.
ChildRecurse_True == TRUE

\* The last argument of the recursive call: recurse=False
ChildRecurse == FALSE

\* repo_filename
RepoFilename(parents, subdir, name) ==
    IF parents # <<>>
    THEN Join(parents, <<"/">>) \o <<"/">> \o Name(subdir) \o <<"/">> \o name
    ELSE Name(subdir) \o <<"/">> \o name

\* module
ModuleName(parents, subdir, name) ==
    IF parents # <<>>
    THEN Join(parents, <<".">>) \o <<".">> \o Stem(Name(subdir)) \o <<".">> \o Stem(name)
    ELSE Stem(Name(subdir)) \o <<".">> \o Stem(name)

\* The branch of the if / elif / else on the extension.
Classify(name) ==
    IF Suffix(name) = PY_EXT /\ Stem(name) # INIT_STEM THEN "module"
    ELSE IF Suffix(name) \in ASSET_EXTS THEN "asset"
    ELSE "ignored"

\* metadata.get(key, default)
DictGet(md, key, default) == IF key \in DOMAIN md THEN md[key] ELSE default

\* Mutant of CliArgs: args before cmd.
CliArgs_ArgsFirst(md, repo_filename) ==
    DictGet(md, "args", <<>>) \o DictGet(md, "cmd", <<S_MODAL, S_RUN, repo_filename>>)

\* cmd + args
CliArgs(md, repo_filename) ==
    DictGet(md, "cmd", <<S_MODAL, S_RUN, repo_filename>>) \o DictGet(md, "args", <<>>)

\* Example(type=ExampleType.MODULE, ...)
ModuleExample(filename, md, parents, subdir, name) ==
    [type          |-> MODULE_TYPE,
     filename      |-> filename,
     metadata      |-> Some(md),
     module        |-> Some(ModuleName(parents, subdir, name)),
     repo_filename |-> RepoFilename(parents, subdir, name),
     cli_args      |-> Some(CliArgs(md, RepoFilename(parents, subdir, name))),
     stem          |-> Some(Stem(Name(filename)))]

\* Mutant of AssetExample: the stem is filled in, as it is for a module.
AssetExample_WithStem(filename, parents, subdir, name) ==
    [type          |-> ASSET_TYPE,
     filename      |-> filename,
     metadata      |-> None,
     module        |-> None,
     repo_filename |-> RepoFilename(parents, subdir, name),
     cli_args      |-> None,
     stem          |-> Some(Stem(Name(filename)))]

\* Example(type=ExampleType.ASSET, filename=..., repo_filename=...): the
\* Optional fields that are not given default to None.
AssetExample(filename, parents, subdir, name) ==
    [type          |-> ASSET_TYPE,
     filename      |-> filename,
     metadata      |-> None,
     module        |-> None,
     repo_filename |-> RepoFilename(parents, subdir, name),
     cli_args      |-> None,
     stem          |-> None]

\* Mutant of AfterExtractorFailure: the exception is caught and the
\* traversal goes on.
AfterExtractorFailure_Caught == "run"

\* The state of get_examples after an exception leaves jupytext.read:
\* nothing catches it.
AfterExtractorFailure == "raised"

(***************************************************************************)
(* The file system: the entries a directory holds are chosen when it is    *)
(* listed, at most MaxNodes entries in all.                                *)
(***************************************************************************)
MaxNodes == 5

N_INIT == <<"_", "_", "i", "n", "i", "t", "_", "_", ".", "p", "y">>
N_APY  == <<"a", ".", "p", "y">>
N_B    == <<"b">>
N_BPNG == <<"b", ".", "p", "n", "g">>
N_AX   == <<"a", ".", "x">>
N_GIT  == <<".", "g", "i", "t">>
N_INTERNAL == <<"i", "n", "t", "e", "r", "n", "a", "l">>

Entry(name, isdir) == [name |-> name, isdir |-> isdir]

RootPool ==
    {Entry(N_AX, TRUE), Entry(N_B, TRUE), Entry(N_B, FALSE),
     Entry(N_GIT, TRUE), Entry(N_INTERNAL, TRUE)}

EntryPool == {Entry(n, d) : n \in {N_INIT, N_APY, N_B, N_BPNG}, d \in BOOLEAN}

\* The metadata the extractor can return: data["metadata"]["jupytext"]
\* .get("root_level_metadata", {})
EmptyDict == [k \in {} |-> <<>>]
MD_CMD  == <<<<"p", "y">>, N_APY>>
MD_ARGS == <<<<"-", "n">>>>
MetadataPool ==
    {EmptyDict,
     [k \in {"cmd"} |-> MD_CMD],
     [k \in {"args"} |-> MD_ARGS],
     [k \in {"cmd", "args"} |-> IF k = "cmd" THEN MD_CMD ELSE MD_ARGS]}

\* The listings a directory can have: any entries of the pool with
\* distinct names, within what is left of MaxNodes.
Listings(pool) ==
    {L \in SUBSET pool :
        /\ Cardinality(L) <= MaxNodes - nodes
        /\ \A x, y \in L : x.name = y.name => x = y}

\* p.is_dir() and not p.name.startswith(".") and not
\* p.name.startswith("internal")
IsCategory(e) ==
    /\ e.isdir
    /\ ~StartsWith(e.name, <<".">>)
    /\ ~StartsWith(e.name, N_INTERNAL)

Frame(parents, subdir, L, recurse) ==
    [parents |-> parents, subdir |-> subdir, entries |-> Sorted(L),
     idx |-> 1, recurse |-> recurse]

CatalogInit ==
    /\ pc = "start"
    /\ exists \in BOOLEAN
    /\ silent \in BOOLEAN
    /\ fs = <<>> /\ nodes = 0 /\ cats = <<>> /\ ci = 1 /\ stack = <<>>
    /\ yielded = <<>> /\ ignored = <<>> /\ reported = FALSE /\ failed = <<>>
    /\ content = <<>> /\ rendered = FALSE /\ output = <<>>

\* get_examples: the directory does not exist
RaiseNotFound ==
    /\ pc = "start" /\ ~exists
    /\ pc' = "raised"
    /\ UNCHANGED <<exists, silent, fs, nodes, cats, ci, stack, yielded, ignored,
                   reported, failed, rvars>>

\* get_examples: ignored = [] and the sorted generator over directory.iterdir()
ListRoot ==
    /\ pc = "start" /\ exists
    /\ \E L \in Listings(RootPool) :
         /\ fs' = (<<>> :> L)
         /\ nodes' = nodes + Cardinality(L)
         /\ cats' = [i \in 1 .. Cardinality({e \in L : IsCategory(e)}) |->
                        <<Sorted({e \in L : IsCategory(e)})[i].name>>]
    /\ pc' = "run"
    /\ UNCHANGED <<exists, silent, ci, stack, yielded, ignored, reported,
                   failed, rvars>>

\* get_examples: yield from gather_example_files(parents=[], subdir=subdir,
\* ignored=ignored, recurse=True), up to the listing of subdir
EnterCategory ==
    /\ pc = "run" /\ stack = <<>> /\ ci <= Len(cats)
    /\ \E L \in Listings(EntryPool) :
         /\ fs' = fs @@ (cats[ci] :> L)
         /\ nodes' = nodes + Cardinality(L)
         /\ stack' = <<Frame(<<>>, cats[ci], L, TRUE)>>
    /\ ci' = ci + 1
    /\ UNCHANGED <<pc, exists, silent, cats, yielded, ignored, reported,
                   failed, rvars>>

Top == stack[Len(stack)]
HasEntry == pc = "run" /\ stack # <<>> /\ Top.idx <= Len(Top.entries)
Cur == Top.entries[Top.idx]
CurFilename == Append(Top.subdir, Cur.name)
Advanced == [stack EXCEPT ![Len(stack)].idx = @ + 1]

\* if filename.is_dir() and recurse: yield from gather_example_files(...)
RecurseInto ==
    /\ HasEntry /\ Cur.isdir /\ Top.recurse
    /\ \E L \in Listings(EntryPool) :
         /\ fs' = fs @@ (CurFilename :> L)
         /\ nodes' = nodes + Cardinality(L)
         /\ stack' = Append(Advanced,
                            Frame(ChildParents(Top.parents, Top.subdir),
                                  CurFilename, L, ChildRecurse))
    /\ UNCHANGED <<pc, exists, silent, cats, ci, yielded, ignored, reported,
                   failed, rvars>>

InElse == HasEntry /\ ~(Cur.isdir /\ Top.recurse)

\* The .py branch: the extractor returns metadata and the record is yielded
YieldModule ==
    /\ InElse /\ Classify(Cur.name) = "module" /\ ~Cur.isdir
    /\ \E md \in MetadataPool :
         yielded' = Append(yielded,
                           ModuleExample(CurFilename, md, Top.parents,
                                         Top.subdir, Cur.name))
    /\ stack' = Advanced
    /\ UNCHANGED <<pc, exists, silent, fs, nodes, cats, ci, ignored, reported,
                   failed, rvars>>

\* The .py branch: open() or jupytext.read() raises (open() always does on
\* a directory)
ExtractorFails ==
    /\ InElse /\ Classify(Cur.name) = "module"
    /\ failed' = <<CurFilename>>
    /\ pc' = AfterExtractorFailure
    /\ UNCHANGED <<exists, silent, fs, nodes, cats, ci, stack, yielded, ignored,
                   reported, rvars>>

\* The asset branch
YieldAsset ==
    /\ InElse /\ Classify(Cur.name) = "asset"
    /\ yielded' = Append(yielded,
                         AssetExample(CurFilename, Top.parents, Top.subdir,
                                      Cur.name))
    /\ stack' = Advanced
    /\ UNCHANGED <<pc, exists, silent, fs, nodes, cats, ci, ignored, reported,
                   failed, rvars>>

\* ignored.append(str(filename))
Ignore ==
    /\ InElse /\ Classify(Cur.name) = "ignored"
    /\ ignored' = Append(ignored, CurFilename)
    /\ stack' = Advanced
    /\ UNCHANGED <<pc, exists, silent, fs, nodes, cats, ci, yielded, reported,
                   failed, rvars>>

\* The for loop of gather_example_files ends: the generator returns
Return ==
    /\ pc = "run" /\ stack # <<>> /\ Top.idx > Len(Top.entries)
    /\ stack' = SubSeq(stack, 1, Len(stack) - 1)
    /\ UNCHANGED <<pc, exists, silent, fs, nodes, cats, ci, yielded, ignored,
                   reported, failed, rvars>>

\* get_examples after its loop: if not silent: print(...)
Finish ==
    /\ pc = "run" /\ stack = <<>> /\ ci > Len(cats)
    /\ reported' = ~silent
    /\ pc' = "done"
    /\ UNCHANGED <<exists, silent, fs, nodes, cats, ci, stack, yielded, ignored,
                   failed, rvars>>

Next ==
    \/ RaiseNotFound
    \/ ListRoot
    \/ EnterCategory
    \/ RecurseInto
    \/ YieldModule
    \/ ExtractorFails
    \/ YieldAsset
    \/ Ignore
    \/ Return
    \/ Finish

Spec == CatalogInit /\ [][Next]_vars

(***************************************************************************)
(* Claims about render_example_md, checked under RenderSpec.               *)
(***************************************************************************)
\* The lines of the file.
Lines == RE_NEWLINE_split(ReadText(content))

RECURSIVE Blanks(_)
Blanks(n) == IF n = 0 THEN <<>> ELSE <<L_EMPTY>> \o Blanks(n - 1)

RECURSIVE FromFirstNonEmpty(_)
FromFirstNonEmpty(ls) ==
    IF Len(ls) = 0 THEN <<>>
    ELSE IF ls[1] # <<>> THEN ls
    ELSE FromFirstNonEmpty(Tail(ls))

HasLine(text, l) == \E i \in 1 .. Len(RE_NEWLINE_split(text)) : RE_NEWLINE_split(text)[i] = l

\* C1 as stated: the file "# Title\nprint(1)\n" renders to
\* "Title\n\n<fence>python\nprint(1)\n<fence>\n\n".
C1_Stated ==
    (rendered /\ content = EXAMPLE_TITLE) =>
        output = Join(<<<<"T", "i", "t", "l", "e">>, L_EMPTY, FENCE_OPEN, L_PRINT,
                        FENCE_CLOSE, L_EMPTY, L_EMPTY>>, <<NL>>)

\* C1 (amended): the file "# Title\nprint(1)\n" renders to
\* "Title\n\n\n<fence>python\nprint(1)\n\n<fence>\n": the prose line, one
\* blank line per non-comment input line, then one fenced block holding
\* print(1) and the final empty line, then one final empty line.
C1_Rendering ==
    (rendered /\ content = EXAMPLE_TITLE) =>
        output = Join(<<<<"T", "i", "t", "l", "e">>, L_EMPTY, L_EMPTY, FENCE_OPEN,
                        L_PRINT, L_EMPTY, FENCE_CLOSE, L_EMPTY>>, <<NL>>)

C1_Witness == rendered /\ content = EXAMPLE_TITLE /\ Len(output) > 0

NoCommentLine(ls) == \A i \in 1 .. Len(ls) : ~IsCommentLine(ls[i])
SomeNonEmptyLine(ls) == \E i \in 1 .. Len(ls) : ls[i] # <<>>

\* C2 as stated: a file with no comment line and a non-empty line renders
\* to the open fence, all its lines, the close fence and one blank line,
\* with nothing before the open fence.
C2_Stated ==
    (rendered /\ NoCommentLine(Lines) /\ SomeNonEmptyLine(Lines)) =>
        output = Join(<<FENCE_OPEN>> \o Lines \o <<FENCE_CLOSE, L_EMPTY>>, <<NL>>)

\* C2 (amended): a file with no comment line and a non-empty line renders
\* to one empty line per input line, then exactly one fenced block holding
\* the lines from the first non-empty one on, then one blank line.
C2_SingleBlock ==
    (rendered /\ NoCommentLine(Lines) /\ SomeNonEmptyLine(Lines)) =>
        output = Join(Blanks(Len(Lines)) \o <<FENCE_OPEN>>
                        \o FromFirstNonEmpty(Lines)
                        \o <<FENCE_CLOSE, L_EMPTY>>, <<NL>>)

C2_Witness ==
    /\ rendered /\ NoCommentLine(Lines) /\ SomeNonEmptyLine(Lines)
    /\ Len(Lines) >= 3 /\ Lines[1] = <<>> /\ Lines[2] # <<>>

\* C3 as stated: a file starting with the lines "---", "key: 1", "---" and
\* a body is rendered without its frontmatter.
C3_Stated ==
    (rendered /\ StartsWith(Lines, <<L_MARKER, L_KEY, L_MARKER>>)) =>
        ~HasLine(output, L_KEY)

\* The frontmatter of a file: comment lines 1..j, the first and the last
\* of them "# ---" and none between them "# ---".
FrontmatterEnd(ls, j) ==
    /\ j \in 2 .. Len(ls)
    /\ ls[1] = L_CMARKER /\ ls[j] = L_CMARKER
    /\ \A i \in 2 .. (j - 1) : IsCommentLine(ls[i]) /\ ls[i] # L_CMARKER

\* C3 (amended): a file whose frontmatter is written as comment lines
\* ("# ---", "# key: 1", "# ---") is rendered without it: the output is
\* what follows the second marker, from that marker line's newline on.
\* A file whose first line is not a comment line is not stripped at all.
C3_Frontmatter ==
    rendered =>
        /\ \A j \in 1 .. Len(Lines) :
             FrontmatterEnd(Lines, j) =>
                output = IF j = Len(Lines) THEN <<>>
                         ELSE <<NL>> \o Assemble(Drop(Lines, j))
        /\ ~IsCommentLine(Lines[1]) => output = Assemble(Lines)

C3_Witness ==
    /\ rendered
    /\ StartsWith(Lines, <<L_CMARKER, L_CKEY, L_CMARKER, L_BODY>>)
    /\ ~HasLine(output, L_KEY) /\ HasLine(output, L_BODY)

(***************************************************************************)
(* Claims about the catalog build, checked under Spec.                     *)
(***************************************************************************)
\* p before q in traversal order: name by name, a directory before what
\* it holds.
RECURSIVE PathLess(_, _)
PathLess(p, q) ==
    IF Len(q) = 0 THEN FALSE
    ELSE IF Len(p) = 0 THEN TRUE
    ELSE IF p[1] = q[1] THEN PathLess(Tail(p), Tail(q))
    ELSE StrLess(p[1], q[1])

Parent(path) == SubSeq(path, 1, Len(path) - 1)

\* The entry at path is a directory.
IsDirAt(path) ==
    /\ Parent(path) \in DOMAIN fs
    /\ \E e \in fs[Parent(path)] : e.name = Name(path) /\ e.isdir

YieldedFiles == {yielded[i].filename : i \in 1 .. Len(yielded)}
IgnoredFiles == {ignored[i] : i \in 1 .. Len(ignored)}

\* C4: the kind of a yielded record determines its optional fields: a
\* MODULE record has module, metadata, cli_args and stem, an ASSET record
\* has none of them.
C4_KindDeterminesFields ==
    \A i \in 1 .. Len(yielded) :
        LET r == yielded[i]
        IN  \/ /\ r.type = MODULE_TYPE
               /\ r.module # None /\ r.metadata # None
               /\ r.cli_args # None /\ r.stem # None
            \/ /\ r.type = ASSET_TYPE
               /\ r.module = None /\ r.metadata = None
               /\ r.cli_args = None /\ r.stem = None

C4_Witness ==
    \E i, j \in 1 .. Len(yielded) :
        yielded[i].type = MODULE_TYPE /\ yielded[j].type = ASSET_TYPE

\* C5: the cli_args of a MODULE record are cmd followed by args, cmd being
\* metadata["cmd"] or else ["modal", "run", repo_filename of the record],
\* args being metadata["args"] or else empty.
C5_CliArgs ==
    \A i \in 1 .. Len(yielded) :
        LET r == yielded[i]
            md == r.metadata[1]
            cmd == IF "cmd" \in DOMAIN md THEN md["cmd"]
                   ELSE <<S_MODAL, S_RUN, r.repo_filename>>
            args == IF "args" \in DOMAIN md THEN md["args"] ELSE <<>>
        IN  r.type = MODULE_TYPE =>
               /\ r.cli_args = <<cmd \o args>>
               /\ DOMAIN md = {} =>
                    r.cli_args = <<(<<S_MODAL, S_RUN, r.repo_filename>>)>>

C5_Witness ==
    \E i, j \in 1 .. Len(yielded) :
        /\ yielded[i].type = MODULE_TYPE /\ yielded[j].type = MODULE_TYPE
        /\ DOMAIN yielded[i].metadata[1] = {"args"}
        /\ DOMAIN yielded[j].metadata[1] = {}
        /\ Len(yielded[j].filename) = 3

\* C6: no directory below a direct subdirectory of a category is listed:
\* what is yielded or ignored is a direct child of a category or of a
\* direct subdirectory of a category.
C6_DepthBound ==
    /\ \A d \in DOMAIN fs : Len(d) <= 2
    /\ \A p \in YieldedFiles \cup IgnoredFiles :
         /\ Len(p) \in {2, 3}
         /\ \E k \in 1 .. Len(cats) : cats[k] = SubSeq(p, 1, 1)
         /\ Len(p) = 3 => IsDirAt(SubSeq(p, 1, 2))

C6_Witness ==
    /\ pc = "done"
    /\ \E d \in DOMAIN fs : Len(d) = 2 /\ \E e \in fs[d] : e.isdir

\* The tree of the end-to-end example: one category c holding a.py and
\* b.png.
ExampleTree(c) ==
    /\ pc = "done"
    /\ fs[<<>>] = {Entry(c, TRUE)}
    /\ <<c>> \in DOMAIN fs
    /\ fs[<<c>>] = {Entry(N_APY, FALSE), Entry(N_BPNG, FALSE)}

YieldedOnceInOrder ==
    \A i, j \in 1 .. Len(yielded) :
        i < j => PathLess(yielded[i].filename, yielded[j].filename)

AllYieldedAtEnd ==
    pc = "done" =>
        \A d \in DOMAIN fs \ {<<>>} : \A e \in fs[d] :
            (~(e.isdir /\ Len(d) = 1) /\ Classify(e.name) # "ignored")
                => Append(d, e.name) \in YieldedFiles

\* C7 as stated: each record is yielded once and in traversal order, and
\* for one category c holding a.py and b.png the records are a.py as
\* MODULE with module "c.a", then b.png as ASSET with repo_filename
\* "c/b.png".
C7_Stated ==
    /\ YieldedOnceInOrder
    /\ AllYieldedAtEnd
    /\ \A c \in {N_AX, N_B} :
         ExampleTree(c) =>
            /\ Len(yielded) = 2
            /\ yielded[1].type = MODULE_TYPE
            /\ yielded[1].module = <<c \o <<".", "a">>>>
            /\ yielded[2].type = ASSET_TYPE
            /\ yielded[2].repo_filename = c \o <<"/">> \o N_BPNG

\* C7 (amended): as stated, but the module of a.py is the stem of the
\* category name (the name up to its last ".") followed by ".a"; it is
\* "c.a" when the name of the category holds no ".".
C7_OrderedOnce ==
    /\ YieldedOnceInOrder
    /\ AllYieldedAtEnd
    /\ \A c \in {N_AX, N_B} :
         ExampleTree(c) =>
            /\ Len(yielded) = 2
            /\ yielded[1].type = MODULE_TYPE
            /\ yielded[1].filename = <<c, N_APY>>
            /\ yielded[1].module = <<Stem(c) \o <<".", "a">>>>
            /\ (\A k \in 1 .. Len(c) : c[k] # ".") =>
                  yielded[1].module = <<c \o <<".", "a">>>>
            /\ yielded[2].type = ASSET_TYPE
            /\ yielded[2].repo_filename = c \o <<"/">> \o N_BPNG

C7_Witness ==
    /\ ExampleTree(N_B)
    /\ Len(yielded) = 2

\* A second case of C7: the records of a nested directory stand between
\* those of its siblings.
C7_NestedWitness ==
    /\ pc = "done" /\ Len(yielded) = 3
    /\ Len(yielded[1].filename) = 2
    /\ Len(yielded[2].filename) = 3
    /\ Len(yielded[3].filename) = 2

\* C8: the repo_filename of every record is the "/"-join of the names of
\* the directories from the category down to the file, then its name.
C8_Stated ==
    \A i \in 1 .. Len(yielded) :
        yielded[i].repo_filename = Join(yielded[i].filename, <<"/">>)

\* C9: once the metadata extractor has failed the build has ended by
\* that failure: the report is not printed, all that was yielded or
\* ignored precedes the failing file, and all that precedes it has been
\* yielded or ignored.
C9_FailureAborts ==
    failed # <<>> =>
        /\ pc = "raised"
        /\ ~reported
        /\ \A p \in YieldedFiles \cup IgnoredFiles : PathLess(p, failed[1])
        /\ \A d \in DOMAIN fs \ {<<>>} : \A e \in fs[d] :
              (PathLess(Append(d, e.name), failed[1])
                 /\ Append(d, e.name) \notin DOMAIN fs)
                => Append(d, e.name) \in YieldedFiles \cup IgnoredFiles

C9_Witness ==
    /\ failed # <<>>
    /\ ~silent
    /\ Len(yielded) >= 1
    /\ Top.idx < Len(Top.entries)

\* C10: what is yielded, ignored or passed to the extractor is a file,
\* never a directory.
C10_Stated ==
    /\ \A p \in YieldedFiles \cup IgnoredFiles : ~IsDirAt(p)
    /\ failed # <<>> => ~IsDirAt(failed[1])

====
